---------------------------- MODULE Spec2Model ----------------------------
(***************************************************************************)
(* A model of the ERP support chatbot backend: the retrieval engine and    *)
(* answer synthesizer (AISentinel, ai_engine.py) and the knowledge store   *)
(* (KnowledgeManager, knowledge_manager.py).                               *)
(*                                                                         *)
(* Conventions.                                                            *)
(*  - A knowledge item (a Python dict) is a function from its keys to      *)
(*    their values; a key a dict does not have is not in its DOMAIN.       *)
(*  - Python's None as the value of "embedding" is the empty sequence      *)
(*    <<>>; both are falsy where the code tests them (ai_engine.py:148).   *)
(*  - Embedding vectors are sequences of integers of length EmbeddingDim   *)
(*    (1536 in the code).  The vectors used have integer magnitudes, so    *)
(*    the code's floating-point square roots and quotients are exact and   *)
(*    a similarity is the rational num/den.                                *)
(*  - A float such as the confidence is given in hundredths.               *)
(***************************************************************************)
EXTENDS Integers, Sequences, FiniteSets, TLC

VARIABLES
    ai_knowledge_base,  \* AISentinel.knowledge_base: a sequence of items
    embedding_cache,    \* AISentinel.embedding_cache: text -> vector
    knowledge_base,     \* KnowledgeManager.knowledge_base: a sequence of
                        \* references into heap (Python list of dicts)
    heap,               \* the item dicts the manager and its tasks refer to
    next_id,            \* KnowledgeManager.next_id
    kb_file,            \* the persisted collection (knowledge_base_path)
    tasks,              \* the coroutines suspended at a provider call
    ret,                \* what the last completed call returned or raised
    request             \* the arguments of a call to cosine_similarity

vars == <<ai_knowledge_base, embedding_cache, knowledge_base, heap, next_id,
          kb_file, tasks, ret, request>>

\* What the manager's operations leave alone
engineVars == <<ai_knowledge_base, embedding_cache, request>>
storeVars == <<knowledge_base, heap, next_id, kb_file, tasks>>

---------------------------------------------------------------------------
(* Bounds of the model *)

EmbeddingDim == 2
MaxItems == 3
MaxTopK == 3
MaxStoreItems == 2
MaxId == 3
MaxTasks == 2
ConcMaxId == 2
MaxComponent == 4
MaxReplyLen == 3

---------------------------------------------------------------------------
(* Generic helpers *)

Min(a, b) == IF a < b THEN a ELSE b
Max(a, b) == IF a < b THEN b ELSE a

RECURSIVE SumTo(_, _)
SumTo(f, n) == IF n = 0 THEN 0 ELSE f[n] + SumTo(f, n - 1)

SeqMax(s, default) ==
    IF s = <<>> THEN default
    ELSE CHOOSE m \in {s[i] : i \in 1..Len(s)} : \A i \in 1..Len(s) : s[i] <= m

ISqrt(n) == CHOOSE r \in 0..n : r * r = n

Vec(a, b) == [i \in 1..EmbeddingDim |-> IF i = 1 THEN a ELSE IF i = 2 THEN b ELSE 0]

\* [0.0] * 1536, the fallback of both get_embedding methods
ZeroVector == [i \in 1..EmbeddingDim |-> 0]

None == <<>>

\* A plausible slip: the stored dict is returned as it is
StripEmbedding_Keeps(item) == item

\* {k: v for k, v in item.items() if k != 'embedding'}
StripEmbedding(item) == [k \in (DOMAIN item) \ {"embedding"} |-> item[k]]

---------------------------------------------------------------------------
(* Text: a Python str is a TLA+ string; its i-th character is Char(s, i) *)

\* s[i-1:i], the empty string outside s
Char(s, i) == IF i \in 1..Len(s) THEN SubSeq(s, i, i) ELSE ""

\* The ASCII letters str.lower() changes
LowerChar(c) ==
    CASE c = "A" -> "a" [] c = "B" -> "b" [] c = "C" -> "c" [] c = "D" -> "d"
      [] c = "E" -> "e" [] c = "F" -> "f" [] c = "G" -> "g" [] c = "H" -> "h"
      [] c = "I" -> "i" [] c = "J" -> "j" [] c = "K" -> "k" [] c = "L" -> "l"
      [] c = "M" -> "m" [] c = "N" -> "n" [] c = "O" -> "o" [] c = "P" -> "p"
      [] c = "Q" -> "q" [] c = "R" -> "r" [] c = "S" -> "s" [] c = "T" -> "t"
      [] c = "U" -> "u" [] c = "V" -> "v" [] c = "W" -> "w" [] c = "X" -> "x"
      [] c = "Y" -> "y" [] c = "Z" -> "z"
      [] OTHER -> c

\* str.lower()
RECURSIVE Lower(_)
Lower(s) ==
    IF s = "" THEN ""
    ELSE Lower(SubSeq(s, 1, Len(s) - 1)) \o LowerChar(Char(s, Len(s)))

\* The whitespace of str.strip() and of \s that the replies use
Space == {" ", "\n", "\t"}

Letters == "ABCDEFGHIJKLMNOPQRSTUVWXYZabcdefghijklmnopqrstuvwxyz"

\* [A-Za-z]
LetterChars == {Char(Letters, i) : i \in 1..Len(Letters)}

\* [0-9], str.isdigit() on the ASCII characters
DigitChars == {"0", "1", "2", "3", "4", "5", "6", "7", "8", "9"}

\* The number of consecutive characters of s, from position p on, that are
\* in the set C
Run(s, p, C) ==
    CHOOSE k \in 0..Max(Len(s) - p + 1, 0) :
        /\ \A j \in p..(p + k - 1) : Char(s, j) \in C
        /\ (p + k > Len(s) \/ Char(s, p + k) \notin C)

\* The same for the characters that are not in C
RunNot(s, p, C) ==
    CHOOSE k \in 0..Max(Len(s) - p + 1, 0) :
        /\ \A j \in p..(p + k - 1) : Char(s, j) \notin C
        /\ (p + k > Len(s) \/ Char(s, p + k) \in C)

\* str.lstrip(chars), chars given as a set
LStripChars(s, C) == SubSeq(s, Run(s, 1, C) + 1, Len(s))

\* The number of characters of C at the end of s
RunBack(s, C) ==
    CHOOSE k \in 0..Len(s) :
        /\ \A j \in (Len(s) - k + 1)..Len(s) : Char(s, j) \in C
        /\ (k = Len(s) \/ Char(s, Len(s) - k) \notin C)

\* str.rstrip(chars)
RStripChars(s, C) == SubSeq(s, 1, Len(s) - RunBack(s, C))

\* str.strip()
Strip(s) == RStripChars(LStripChars(s, Space), Space)

\* str.split(sep) for a separator of one character: the pieces between the
\* separators, empty ones included
RECURSIVE Split(_, _)
Split(s, sep) ==
    LET n == RunNot(s, 1, {sep}) IN
    IF n = Len(s) THEN <<s>>
    ELSE <<SubSeq(s, 1, n)>> \o Split(SubSeq(s, n + 2, Len(s)), sep)

\* str.startswith(prefix)
StartsWith(s, prefix) ==
    Len(prefix) <= Len(s) /\ SubSeq(s, 1, Len(prefix)) = prefix

---------------------------------------------------------------------------
(* The external provider *)

\* openai.embeddings.create: what the provider answers when it answers
ProviderEmbedding(text) ==
    CASE text = "c1" -> Vec(1, 0)
      [] text = "c2" -> Vec(0, 1)
      [] text = "c3" -> Vec(3, 4)
      [] text = "q1" -> Vec(-3, 4)
      [] OTHER -> Vec(0, 2)

Contents == {"c1", "c2", "c3"}
Queries == {"c1", "q1"}

\* A chat-completion reply: the call raised ("error"), returned text that is
\* not JSON ("text"), or returned a JSON object ("json", obj)
JsonWithIds ==
    [answer |-> "a", shouldEscalate |-> FALSE, relatedQuestions |-> <<"r1", "r2">>,
     category |-> "Sales", confidence |-> 90, sourceKnowledgeIds |-> <<2>>]

JsonWithoutIds ==
    [answer |-> "a", shouldEscalate |-> FALSE, relatedQuestions |-> <<"r1">>,
     category |-> "HR", confidence |-> 50]

ChatReplies ==
    {[kind |-> "error", obj |-> JsonWithoutIds],
     [kind |-> "text", obj |-> JsonWithoutIds],
     [kind |-> "json", obj |-> JsonWithIds],
     [kind |-> "json", obj |-> JsonWithoutIds]}

---------------------------------------------------------------------------
(* AISentinel: loading *)

\* sample_kb; the long content texts are abbreviated to c1, c2, c3
SampleKB ==
    << [id |-> 1, title |-> "Resetting ERP Password", content |-> "c1",
        category |-> "Authentication", tags |-> <<"password", "login", "reset", "security">>,
        embedding |-> None],
       [id |-> 2, title |-> "Generating Sales Reports", content |-> "c2",
        category |-> "Sales", tags |-> <<"reports", "sales", "export", "analytics">>,
        embedding |-> None],
       [id |-> 3, title |-> "Submitting Time Off Requests", content |-> "c3",
        category |-> "HR", tags |-> <<"time off", "leave", "vacation", "HR", "request">>,
        embedding |-> None] >>

\* The persisted file: absent, not JSON, or a JSON list of objects
FileOf(items) == [state |-> "ok", items |-> items]
AbsentFile == [state |-> "absent", items |-> <<>>]
CorruptFile == [state |-> "corrupt", items |-> <<>>]

AI_load_knowledge_base(f) == IF f.state = "ok" THEN f.items ELSE SampleKB

AI_file_after_load(f) == IF f.state = "ok" THEN f ELSE FileOf(SampleKB)

---------------------------------------------------------------------------
(* AISentinel: embedding, retrieval, answer synthesis *)

\* A plausible slip: the fallback vector is cached like a provider answer
AI_get_embedding_CachesFallback(text, cache, ok) ==
    IF text \in DOMAIN cache
    THEN [vec |-> cache[text], cache |-> cache, called |-> FALSE, failed |-> FALSE]
    ELSE LET v == IF ok THEN ProviderEmbedding(text) ELSE ZeroVector IN
         [vec |-> v,
          cache |-> [t \in DOMAIN cache \cup {text} |-> IF t = text THEN v ELSE cache[t]],
          called |-> TRUE, failed |-> ~ok]

\* A plausible slip: the provider's answer is returned but not cached
AI_get_embedding_NoStore(text, cache, ok) ==
    IF text \in DOMAIN cache
    THEN [vec |-> cache[text], cache |-> cache, called |-> FALSE, failed |-> FALSE]
    ELSE [vec |-> IF ok THEN ProviderEmbedding(text) ELSE ZeroVector,
          cache |-> cache, called |-> TRUE, failed |-> ~ok]

\* get_embedding(text): ok says whether the provider call, if made, succeeds
\* (the call and the reading of its response are inside the try).  called
\* and failed say whether the provider was called and whether that failed.
AI_get_embedding(text, cache, ok) ==
    IF text \in DOMAIN cache
    THEN [vec |-> cache[text], cache |-> cache, called |-> FALSE, failed |-> FALSE]
    ELSE IF ok
         THEN [vec |-> ProviderEmbedding(text),
               cache |-> [t \in DOMAIN cache \cup {text} |->
                            IF t = text THEN ProviderEmbedding(text) ELSE cache[t]],
               called |-> TRUE, failed |-> FALSE]
         ELSE [vec |-> ZeroVector, cache |-> cache, called |-> TRUE, failed |-> TRUE]

SetKey(item, key, value) ==
    [k \in DOMAIN item \cup {key} |-> IF k = key THEN value ELSE item[k]]

\* not item.get("embedding")
LacksEmbedding(item) == "embedding" \notin DOMAIN item \/ item["embedding"] = <<>>

\* One turn of the loop at lines 147-149; st.n counts the provider outcomes used
BackfillStep(st, i, oks) ==
    LET item == st.kb[i] IN
    IF ~LacksEmbedding(item) THEN st
    ELSE IF "content" \notin DOMAIN item THEN [st EXCEPT !.raised = TRUE]
    ELSE LET r == AI_get_embedding(item["content"], st.cache, oks[st.n + 1]) IN
         [kb |-> [st.kb EXCEPT ![i] = SetKey(item, "embedding", r.vec)],
          cache |-> r.cache,
          n |-> st.n + (IF r.called THEN 1 ELSE 0),
          failed |-> st.failed \/ r.failed,
          raised |-> FALSE]

RECURSIVE Backfill(_, _, _)
Backfill(st, i, oks) ==
    IF i > Len(st.kb) \/ st.raised THEN st
    ELSE Backfill(BackfillStep(st, i, oks), i + 1, oks)

Dot(a, b) == LET n == Min(Len(a), Len(b)) IN SumTo([i \in 1..n |-> a[i] * b[i]], n)

Magnitude(a) == ISqrt(SumTo([i \in 1..Len(a) |-> a[i] * a[i]], Len(a)))

\* A plausible slip: the projection on a, dot / (|a| * |a|)
cosine_similarity_ProjectsOnA(a, b) ==
    IF Magnitude(a) * Magnitude(b) = 0 THEN [num |-> 0, den |-> 1]
    ELSE [num |-> Dot(a, b), den |-> Magnitude(a) * Magnitude(a)]

\* cosine_similarity(a, b), as the rational num/den with den > 0
cosine_similarity(a, b) ==
    IF Magnitude(a) * Magnitude(b) = 0 THEN [num |-> 0, den |-> 1]
    ELSE [num |-> Dot(a, b), den |-> Magnitude(a) * Magnitude(b)]

SimLess(x, y) == x.num * y.den < y.num * x.den
SimEq(x, y) == x.num * y.den = y.num * x.den

\* A plausible slip: a sort that is not stable puts index j before its equals
InsertPosition_Unstable(sorted, j, scores) ==
    IF \E p \in 1..Len(sorted) : ~SimLess(scores[j], scores[sorted[p]])
    THEN CHOOSE p \in 1..Len(sorted) :
            /\ ~SimLess(scores[j], scores[sorted[p]])
            /\ \A q \in 1..(p - 1) : SimLess(scores[j], scores[sorted[q]])
    ELSE Len(sorted) + 1

\* Where list.sort(key=score, reverse=True) puts index j among the indices
\* already sorted: after every index whose score is not lower (stable)
InsertPosition(sorted, j, scores) ==
    IF \E p \in 1..Len(sorted) : SimLess(scores[sorted[p]], scores[j])
    THEN CHOOSE p \in 1..Len(sorted) :
            /\ SimLess(scores[sorted[p]], scores[j])
            /\ \A q \in 1..(p - 1) : ~SimLess(scores[sorted[q]], scores[j])
    ELSE Len(sorted) + 1

RECURSIVE SortedIndices(_, _)
SortedIndices(scores, n) ==
    IF n = 0 THEN <<>>
    ELSE LET sorted == SortedIndices(scores, n - 1)
             p == InsertPosition(sorted, n, scores)
         IN SubSeq(sorted, 1, p - 1) \o <<n>> \o SubSeq(sorted, p, Len(sorted))

\* A plausible slip: the slice is forgotten
PySlice_All(seq, top_k) == seq

\* seq[:top_k]
PySlice(seq, top_k) ==
    IF top_k >= 0 THEN SubSeq(seq, 1, Min(top_k, Len(seq)))
    ELSE SubSeq(seq, 1, Max(Len(seq) + top_k, 0))

\* search_knowledge_base(query, top_k); oks are the provider's outcomes for
\* the embedding calls in the order they are made
search_knowledge_base(query, top_k, kb, cache, oks) ==
    LET q == AI_get_embedding(query, cache, oks[1])
        st == Backfill([kb |-> kb, cache |-> q.cache,
                        n |-> IF q.called THEN 1 ELSE 0,
                        failed |-> q.failed, raised |-> FALSE], 1, oks)
        scores == [i \in 1..Len(st.kb) |->
                     cosine_similarity(q.vec, st.kb[i]["embedding"])]
        order == PySlice(SortedIndices(scores, Len(st.kb)), top_k)
    IN [raised |-> st.raised,
        kb |-> st.kb,
        cache |-> st.cache,
        failed |-> st.failed,
        query_embedding |-> q.vec,
        items |-> IF st.raised THEN <<>>
                  ELSE [j \in 1..Len(order) |-> st.kb[order[j]]]]

DefaultTopK == 3

\* A plausible slip: the fallback does not ask for escalation
FallbackResult_NoEscalate ==
    [answer |-> "I'm sorry, but I encountered an error while processing your question. Please try again or contact support for assistance.",
     shouldEscalate |-> FALSE, relatedQuestions |-> <<>>, category |-> "Error",
     confidence |-> 0, sourceKnowledgeIds |-> <<>>]

\* The fallback response of process_query's except clause
FallbackResult ==
    [answer |-> "I'm sorry, but I encountered an error while processing your question. Please try again or contact support for assistance.",
     shouldEscalate |-> TRUE, relatedQuestions |-> <<>>, category |-> "Error",
     confidence |-> 0, sourceKnowledgeIds |-> <<>>]

\* The f-string of lines 223-226 needs these keys of every retrieved item
RenderRaises(items) ==
    \E j \in 1..Len(items) : ~({"title", "content", "category"} \subseteq DOMAIN items[j])

\* A plausible slip: the retrieved ids replace the ids the provider gave
Synthesize_AlwaysInjects(items, reply) ==
    IF reply.kind # "json" THEN FallbackResult
    ELSE IF \E j \in 1..Len(items) : "id" \notin DOMAIN items[j] THEN FallbackResult
    ELSE SetKey(reply.obj, "sourceKnowledgeIds", [j \in 1..Len(items) |-> items[j]["id"]])

\* The body of the try block, lines 259-280, and its except clause
Synthesize(items, reply) ==
    IF reply.kind # "json" THEN FallbackResult
    ELSE IF \E j \in 1..Len(items) : "id" \notin DOMAIN items[j] THEN FallbackResult
    ELSE IF "sourceKnowledgeIds" \in DOMAIN reply.obj THEN reply.obj
    ELSE SetKey(reply.obj, "sourceKnowledgeIds", [j \in 1..Len(items) |-> items[j]["id"]])

\* process_query(query, user_info): user_info only changes the prompt text.
\* raised says an exception left the method; there is no result then and the
\* result field is a filler.  chat says whether the chat-completion call was
\* reached and how it ended.
process_query(query, kb, cache, oks, reply) ==
    LET s == search_knowledge_base(query, DefaultTopK, kb, cache, oks)
        raised == s.raised \/ RenderRaises(s.items)
    IN [raised |-> raised,
        kb |-> s.kb,
        cache |-> s.cache,
        embedFailed |-> s.failed,
        items |-> s.items,
        chat |-> IF raised THEN "notcalled" ELSE reply.kind,
        result |-> IF raised THEN FallbackResult ELSE Synthesize(s.items, reply)]

\* The provider's outcomes for the embedding calls one search can make: one
\* for the query and one for each item still lacking an embedding
Outcomes(kb) ==
    [1..(1 + Cardinality({i \in 1..Len(kb) : LacksEmbedding(kb[i])})) -> BOOLEAN]

TopKs == (-1)..MaxTopK

Search(query, top_k, oks) ==
    \E s \in {search_knowledge_base(query, top_k, ai_knowledge_base, embedding_cache, oks)} :
    /\ ai_knowledge_base' = s.kb
    /\ embedding_cache' = s.cache
    /\ ret' = [op |-> "search", query |-> query, top_k |-> top_k,
               raised |-> s.raised, query_embedding |-> s.query_embedding,
               items |-> s.items]
    /\ UNCHANGED <<storeVars, request>>

ProcessQuery(query, oks, reply) ==
    \E r \in {process_query(query, ai_knowledge_base, embedding_cache, oks, reply)} :
    /\ ai_knowledge_base' = r.kb
    /\ embedding_cache' = r.cache
    /\ ret' = [op |-> "process_query", query |-> query, raised |-> r.raised,
               embedFailed |-> r.embedFailed, chat |-> r.chat, reply |-> reply.obj,
               items |-> r.items, result |-> r.result]
    /\ UNCHANGED <<storeVars, request>>

\* get_embedding called on its own
Embed(text, ok) ==
    \E r \in {AI_get_embedding(text, embedding_cache, ok)} :
    /\ embedding_cache' = r.cache
    /\ ret' = [op |-> "embed", text |-> text, vec |-> r.vec,
               called |-> r.called, failed |-> r.failed]
    /\ UNCHANGED <<ai_knowledge_base, storeVars, request>>

\* Texts to embed: some differ only in case or in a trailing blank
EmbedTexts == {"c1", "C1", "c1 ", "q1"}

\* Items a persisted file may hold when the engine loads it
EnginePool ==
    {SampleKB[1], SampleKB[2],
     [id |-> 4, title |-> "t4", content |-> "c4", category |-> "Sales",
      tags |-> <<>>, embedding |-> Vec(0, 2)],
     [id |-> 6, content |-> "c1", category |-> "HR", tags |-> <<>>,
      embedding |-> None],
     [id |-> 7, title |-> "t7", category |-> "HR", tags |-> <<>>]}

DistinctSeqs(S, n) ==
    {s \in UNION {[1..m -> S] : m \in 0..n} :
        \A i, j \in 1..Len(s) : i # j => s[i] # s[j]}

EngineFiles ==
    {AbsentFile, CorruptFile} \cup {FileOf(s) : s \in DistinctSeqs(EnginePool, MaxItems)}

NoRet == [op |-> "none"]

\* No vectors to compare
NoRequest == [a |-> <<>>, b |-> <<>>]

EmptyCache == [t \in {} |-> ZeroVector]

StoreIdle ==
    /\ knowledge_base = <<>>
    /\ heap = <<>>
    /\ next_id = 1
    /\ tasks = <<>>

EngineInit ==
    /\ \E f \in EngineFiles :
          /\ ai_knowledge_base = AI_load_knowledge_base(f)
          /\ kb_file = AI_file_after_load(f)
    /\ embedding_cache = EmptyCache
    /\ StoreIdle
    /\ ret = NoRet
    /\ request = NoRequest

EngineNext ==
    \/ \E q \in Queries, k \in TopKs, oks \in Outcomes(ai_knowledge_base) :
          Search(q, k, oks)
    \/ \E q \in Queries, oks \in Outcomes(ai_knowledge_base), reply \in ChatReplies :
          ProcessQuery(q, oks, reply)

EngineSpec == EngineInit /\ [][EngineNext]_vars

\* One engine whose get_embedding is called by its owner and by its searches
CacheFiles == {AbsentFile, FileOf(<<>>), FileOf(<<SampleKB[2]>>)}

CacheInit ==
    /\ \E f \in CacheFiles :
          /\ ai_knowledge_base = AI_load_knowledge_base(f)
          /\ kb_file = AI_file_after_load(f)
    /\ embedding_cache = EmptyCache
    /\ StoreIdle
    /\ ret = NoRet
    /\ request = NoRequest

CacheNext ==
    \/ \E text \in EmbedTexts, ok \in BOOLEAN : Embed(text, ok)
    \/ \E q \in Queries, oks \in Outcomes(ai_knowledge_base) :
          Search(q, DefaultTopK, oks)

CacheSpec == CacheInit /\ [][CacheNext]_vars

\* The largest float, on the model's scale: the sum of the squares of
\* EmbeddingDim components of size MaxComponent fits, nothing larger need
FloatMax == EmbeddingDim * MaxComponent * MaxComponent

\* a_i ** 2 raises OverflowError when the square is not a float
PowRaises(a) == \E i \in 1..Len(a) : a[i] * a[i] > FloatMax

\* cosine_similarity called on the vectors of request, in both orders.  When
\* it raises there is no similarity and the sim fields are fillers.
CosineSimilarity ==
    /\ ret = NoRet
    /\ \E raised \in {PowRaises(request.a) \/ PowRaises(request.b)} :
          ret' = [op |-> "cosine",
                  raised |-> raised,
                  sim |-> IF raised THEN [num |-> 0, den |-> 1]
                          ELSE cosine_similarity(request.a, request.b),
                  inverse |-> IF raised THEN [num |-> 0, den |-> 1]
                              ELSE cosine_similarity(request.b, request.a)]
    /\ UNCHANGED <<engineVars, storeVars>>

IsSquare(n) == \E r \in 0..n : r * r = n

\* The vectors of up to EmbeddingDim integers between -MaxComponent and
\* MaxComponent whose magnitude is an integer
Vectors ==
    {v \in UNION {[1..n -> (-MaxComponent)..MaxComponent] : n \in 0..EmbeddingDim} :
        IsSquare(SumTo([i \in 1..Len(v) |-> v[i] * v[i]], Len(v)))}

\* A component whose square is beyond the largest float (1e200, say)
HugeComponent == EmbeddingDim * MaxComponent + 1

\* Vectors with such a component
HugeVectors ==
    {v \in [1..EmbeddingDim -> {0, HugeComponent}] :
        \E i \in 1..EmbeddingDim : v[i] = HugeComponent}

SimilarityInit ==
    /\ ai_knowledge_base = <<>>
    /\ embedding_cache = EmptyCache
    /\ kb_file = AbsentFile
    /\ StoreIdle
    /\ ret = NoRet
    /\ request \in [a : Vectors \cup HugeVectors, b : Vectors \cup HugeVectors]

SimilarityNext == CosineSimilarity

SimilaritySpec == SimilarityInit /\ [][SimilarityNext]_vars

---------------------------------------------------------------------------
(* KnowledgeManager *)

\* _load_knowledge_base: the file's list, or the empty list
KM_load_knowledge_base(f) == IF f.state = "ok" THEN f.items ELSE <<>>

\* max([item["id"] for item in self.knowledge_base], default=0) + 1
InitialNextId(items) == SeqMax([i \in 1..Len(items) |-> items[i]["id"]], 0) + 1

\* get_embedding(text): no cache; the zero vector when the provider fails
KM_get_embedding(text, ok) == IF ok THEN ProviderEmbedding(text) ELSE ZeroVector

\* The dicts of the collection, in order
Items(kb, h) == [i \in 1..Len(kb) |-> h[kb[i]]]

\* A plausible slip: the embeddings are left out of what is written
Saved_WithoutEmbeddings(kb, h) ==
    FileOf([i \in 1..Len(kb) |-> StripEmbedding(h[kb[i]])])

\* _save_knowledge_base: json.dump of the whole list, embeddings included
Saved(kb, h) == FileOf(Items(kb, h))

\* The index of the first item with this id, 0 when there is none
\* (the loops of get_item_by_id, update_item and delete_item)
FindIndex(kb, h, item_id) ==
    IF \E i \in 1..Len(kb) : h[kb[i]]["id"] = item_id
    THEN CHOOSE i \in 1..Len(kb) :
            /\ h[kb[i]]["id"] = item_id
            /\ \A j \in 1..(i - 1) : h[kb[j]]["id"] # item_id
    ELSE 0

\* get_item_by_id(item_id): the stripped copy, or None (found = FALSE)
get_item_by_id(kb, h, item_id) ==
    LET i == FindIndex(kb, h, item_id) IN
    IF i = 0 THEN [found |-> FALSE, item |-> StripEmbedding(SampleKB[1])]
    ELSE [found |-> TRUE, item |-> StripEmbedding(h[kb[i]])]

\* The dict built at lines 168-175
NewItem(id, item_data) ==
    [id |-> id, title |-> item_data["title"], content |-> item_data["content"],
     category |-> item_data["category"],
     tags |-> IF "tags" \in DOMAIN item_data THEN item_data["tags"] ELSE <<>>,
     embedding |-> None]

\* A plausible slip: the counter is not advanced
IncrementNextId_Stuck(n) == n

\* self.next_id += 1
IncrementNextId(n) == n + 1

RecognizedKeys == {"title", "content", "category", "tags"}

\* The loop at lines 207-209
ApplyUpdates(item, updates) ==
    [k \in DOMAIN item \cup (DOMAIN updates \cap RecognizedKeys) |->
        IF k \in DOMAIN updates \cap RecognizedKeys THEN updates[k] ELSE item[k]]

\* A plausible slip: every update recomputes the embedding
RecomputesEmbedding_Always(updates) == TRUE

\* if "content" in updates
RecomputesEmbedding(updates) == "content" \in DOMAIN updates

\* The references a frame or the collection still holds
Referenced(kb, ts) == {kb[i] : i \in 1..Len(kb)} \cup {ts[t].ref : t \in 1..Len(ts)}

\* A dict no reference reaches is gone
Collect(h, kb, ts) == [r \in DOMAIN h \cap Referenced(kb, ts) |-> h[r]]

NewRef(h) == CHOOSE r \in 1..(Cardinality(DOMAIN h) + 1) : r \notin DOMAIN h

RemoveAt(seq, i) == SubSeq(seq, 1, i - 1) \o SubSeq(seq, i + 1, Len(seq))

NoArg == [k \in {} |-> ""]

\* A suspended coroutine: the dict it holds, the text it sent to the provider,
\* its argument, and for bulk_update_embeddings the list iterator's position
Frame(op, ref, text, arg, id, idx) ==
    [op |-> op, ref |-> ref, text |-> text, arg |-> arg, id |-> id, idx |-> idx]

Drafts ==
    {[title |-> "t1", content |-> "c1", category |-> "Sales"],
     [title |-> "t2", content |-> "c2", category |-> "HR", tags |-> <<"x">>]}

Patches ==
    {[title |-> "t2"], [content |-> "c1"], [content |-> "c2"]}

\* The updates tried where operations overlap
ConcPatches ==
    {[content |-> "c1"], [content |-> "c2"]}

Ids == 1..MaxId

\* create_item up to the await of get_embedding
CreateCall(item_data, limit, idCap) ==
    /\ Len(tasks) < limit
    /\ next_id <= idCap
    /\ Len(knowledge_base)
         + Cardinality({t \in 1..Len(tasks) : tasks[t].op = "create"}) < MaxStoreItems
    /\ \E ref \in {NewRef(heap)} :
          /\ heap' = [r \in DOMAIN heap \cup {ref} |->
                        IF r = ref THEN NewItem(next_id, item_data) ELSE heap[r]]
          /\ tasks' = Append(tasks, Frame("create", ref, item_data["content"],
                                          item_data, next_id, 0))
    /\ ret' = NoRet
    /\ UNCHANGED <<knowledge_base, next_id, kb_file, engineVars>>

\* create_item from the provider's answer to its return
CreateResume(t, ok) ==
    /\ tasks[t].op = "create"
    /\ \E f \in {tasks[t]} :
       \E h \in {[heap EXCEPT ![f.ref] =
                    SetKey(@, "embedding", KM_get_embedding(f.text, ok))]} :
          /\ knowledge_base' = Append(knowledge_base, f.ref)
          /\ heap' = h
          /\ next_id' = IncrementNextId(next_id)
          /\ kb_file' = Saved(knowledge_base', h)
          /\ tasks' = RemoveAt(tasks, t)
          /\ ret' = [op |-> "create", draft |-> f.arg,
                     calls |-> <<[text |-> f.text, ok |-> ok]>>,
                     item |-> StripEmbedding(h[f.ref])]
    /\ UNCHANGED engineVars

\* update_item when it does not await: no item has the id, or there is no
\* content among the updates
UpdateSync(item_id, updates, limit) ==
    /\ Len(tasks) < limit
    /\ \E i \in {FindIndex(knowledge_base, heap, item_id)} :
          IF i = 0
          THEN /\ ret' = [op |-> "update", id |-> item_id, patch |-> updates,
                          found |-> FALSE, calls |-> <<>>,
                          item |-> StripEmbedding(SampleKB[1])]
               /\ UNCHANGED storeVars
          ELSE /\ ~RecomputesEmbedding(updates)
               /\ heap' = [heap EXCEPT ![knowledge_base[i]] = ApplyUpdates(@, updates)]
               /\ kb_file' = Saved(knowledge_base, heap')
               /\ ret' = [op |-> "update", id |-> item_id, patch |-> updates,
                          found |-> TRUE, calls |-> <<>>,
                          item |-> StripEmbedding(heap'[knowledge_base[i]])]
               /\ UNCHANGED <<knowledge_base, next_id, tasks>>
    /\ UNCHANGED engineVars

\* update_item up to the await of get_embedding
UpdateCall(item_id, updates, limit) ==
    /\ Len(tasks) < limit
    /\ \E i \in {FindIndex(knowledge_base, heap, item_id)} :
          /\ i # 0
          /\ RecomputesEmbedding(updates)
          /\ heap' = [heap EXCEPT ![knowledge_base[i]] = ApplyUpdates(@, updates)]
          /\ tasks' = Append(tasks, Frame("update", knowledge_base[i],
                                          heap'[knowledge_base[i]]["content"],
                                          updates, item_id, 0))
    /\ ret' = NoRet
    /\ UNCHANGED <<knowledge_base, next_id, kb_file, engineVars>>

\* update_item from the provider's answer to its return
UpdateResume(t, ok) ==
    /\ tasks[t].op = "update"
    /\ \E f \in {tasks[t]} :
       \E h \in {[heap EXCEPT ![f.ref] =
                    SetKey(@, "embedding", KM_get_embedding(f.text, ok))]} :
          /\ tasks' = RemoveAt(tasks, t)
          /\ kb_file' = Saved(knowledge_base, h)
          /\ heap' = Collect(h, knowledge_base, tasks')
          /\ ret' = [op |-> "update", id |-> f.id, patch |-> f.arg,
                     found |-> TRUE, calls |-> <<[text |-> f.text, ok |-> ok]>>,
                     item |-> StripEmbedding(h[f.ref])]
    /\ UNCHANGED <<knowledge_base, next_id, engineVars>>

\* A plausible slip: the loop variable's last index is popped on a miss
delete_item_PopsLast(kb, h, item_id) ==
    LET i == FindIndex(kb, h, item_id) IN
    IF i = 0 THEN [found |-> FALSE, saved |-> kb # <<>>,
                   kb |-> SubSeq(kb, 1, Len(kb) - 1)]
    ELSE [found |-> TRUE, saved |-> TRUE, kb |-> RemoveAt(kb, i)]

\* delete_item(item_id): whether an item was found, the list afterwards, and
\* whether _save_knowledge_base ran
delete_item(kb, h, item_id) ==
    LET i == FindIndex(kb, h, item_id) IN
    IF i = 0 THEN [found |-> FALSE, saved |-> FALSE, kb |-> kb]
    ELSE [found |-> TRUE, saved |-> TRUE, kb |-> RemoveAt(kb, i)]

DeleteItem(item_id, limit) ==
    /\ Len(tasks) < limit
    /\ \E d \in {delete_item(knowledge_base, heap, item_id)} :
          /\ knowledge_base' = d.kb
          /\ kb_file' = IF d.saved THEN Saved(d.kb, heap) ELSE kb_file
          /\ heap' = Collect(heap, d.kb, tasks)
          /\ ret' = [op |-> "delete", id |-> item_id, found |-> d.found]
    /\ UNCHANGED <<next_id, tasks, engineVars>>

\* bulk_update_embeddings up to its first await, or to its return when the
\* collection is empty
BulkCall(limit) ==
    /\ Len(tasks) < limit
    /\ IF knowledge_base = <<>>
       THEN /\ kb_file' = Saved(knowledge_base, heap)
            /\ ret' = [op |-> "bulk", count |-> 0]
            /\ UNCHANGED <<knowledge_base, heap, next_id, tasks>>
       ELSE /\ tasks' = Append(tasks, Frame("bulk", knowledge_base[1],
                                            heap[knowledge_base[1]]["content"],
                                            NoArg, 0, 1))
            /\ ret' = NoRet
            /\ UNCHANGED <<knowledge_base, heap, next_id, kb_file>>
    /\ UNCHANGED engineVars

\* bulk_update_embeddings from one answer of the provider to the next await,
\* or to its return when the list iterator is exhausted
BulkResume(t, ok) ==
    /\ tasks[t].op = "bulk"
    /\ \E f \in {tasks[t]} :
       \E h \in {[heap EXCEPT ![f.ref] =
                    SetKey(@, "embedding", KM_get_embedding(f.text, ok))]} :
          IF f.idx + 1 <= Len(knowledge_base)
          THEN /\ tasks' = [tasks EXCEPT ![t] =
                              Frame("bulk", knowledge_base[f.idx + 1],
                                    h[knowledge_base[f.idx + 1]]["content"],
                                    NoArg, 0, f.idx + 1)]
               /\ heap' = Collect(h, knowledge_base, tasks')
               /\ ret' = NoRet
               /\ UNCHANGED <<knowledge_base, next_id, kb_file>>
          ELSE /\ tasks' = RemoveAt(tasks, t)
               /\ kb_file' = Saved(knowledge_base, h)
               /\ heap' = Collect(h, knowledge_base, tasks')
               /\ ret' = [op |-> "bulk", count |-> f.idx]
               /\ UNCHANGED <<knowledge_base, next_id>>
    /\ UNCHANGED engineVars

\* get_item_by_id
GetItemById(item_id, limit) ==
    /\ Len(tasks) < limit
    /\ \E g \in {get_item_by_id(knowledge_base, heap, item_id)} :
          ret' = [op |-> "get_item_by_id", id |-> item_id, found |-> g.found,
                  item |-> g.item]
    /\ UNCHANGED <<storeVars, engineVars>>

\* A plausible slip: the stored dicts themselves are returned
get_all_items_Raw(kb, h) == Items(kb, h)

\* get_all_items(): a stripped copy of every item
get_all_items(kb, h) == [i \in 1..Len(kb) |-> StripEmbedding(h[kb[i]])]

\* get_items_by_category(category): case-insensitive match on the category
get_items_by_category(kb, h, category) ==
    LET Matches(item) == Lower(item["category"]) = Lower(category)
        matching == SelectSeq(Items(kb, h), Matches)
    IN [j \in 1..Len(matching) |-> StripEmbedding(matching[j])]

\* get_items_by_tags(tags): items having any of the tags, case-insensitive
get_items_by_tags(kb, h, tags) ==
    LET ItemTags(item) == IF "tags" \in DOMAIN item THEN item["tags"] ELSE <<>>
        Matches(item) ==
            \E a \in 1..Len(tags), b \in 1..Len(ItemTags(item)) :
                Lower(tags[a]) = Lower(ItemTags(item)[b])
        matching == SelectSeq(Items(kb, h), Matches)
    IN [j \in 1..Len(matching) |-> StripEmbedding(matching[j])]

GetAllItems(limit) ==
    /\ Len(tasks) < limit
    /\ ret' = [op |-> "list", items |-> get_all_items(knowledge_base, heap)]
    /\ UNCHANGED <<storeVars, engineVars>>

GetItemsByCategory(category, limit) ==
    /\ Len(tasks) < limit
    /\ ret' = [op |-> "by_category", category |-> category,
               items |-> get_items_by_category(knowledge_base, heap, category)]
    /\ UNCHANGED <<storeVars, engineVars>>

GetItemsByTags(tags, limit) ==
    /\ Len(tasks) < limit
    /\ ret' = [op |-> "by_tags", tags |-> tags,
               items |-> get_items_by_tags(knowledge_base, heap, tags)]
    /\ UNCHANGED <<storeVars, engineVars>>

\* Arguments of the two read filters
CategoryArgs == {"sales", "HR", "Finance"}
TagArgs == {<<"X">>, <<"y", "x">>}

---------------------------------------------------------------------------
(* KnowledgeManager: suggest_categories *)

\* [1-3.\-\s] and [A-Za-z\s&]
ListMarkerChars == {"1", "2", "3", ".", "-"} \cup Space
CategoryChars == LetterChars \cup Space \cup {"&"}

\* What matching at one position gives: whether there is a match, where its
\* group is (s[from..to]) and where the match ends (the next search starts
\* at end)
NoMatch == [ok |-> FALSE, from |-> 0, to |-> 0, end |-> 0]

\* C1{min1,} followed by C2+, both greedy, matched at position p as a
\* backtracking matcher does: the longest run of C1 after which a character
\* of C2 follows, then all of the run of C2, which is the group.
GreedyThen(s, p, C1, min1, C2) ==
    LET K == {k \in min1..Run(s, p, C1) : Run(s, p + k, C2) >= 1} IN
    IF K = {} THEN NoMatch
    ELSE LET k == CHOOSE x \in K : \A y \in K : y <= x IN
         [ok |-> TRUE, from |-> p + k, to |-> p + k + Run(s, p + k, C2) - 1,
          end |-> p + k + Run(s, p + k, C2)]

\* (?:^|\n)[1-3.\-\s]+([A-Za-z\s&]+) matched at position i; without the
\* MULTILINE flag ^ is the start of the text only
ListItemAt(s, i) ==
    LET viaStart == IF i = 1 THEN GreedyThen(s, 1, ListMarkerChars, 1, CategoryChars)
                    ELSE NoMatch
        viaNewline == IF Char(s, i) = "\n"
                      THEN GreedyThen(s, i + 1, ListMarkerChars, 1, CategoryChars)
                      ELSE NoMatch
    IN IF viaStart.ok THEN viaStart ELSE viaNewline

\* "([^"]+)" matched at position i
QuotedAt(s, i) ==
    LET n == RunNot(s, i + 1, {"\""}) IN
    IF Char(s, i) = "\"" /\ n >= 1 /\ Char(s, i + 1 + n) = "\""
    THEN [ok |-> TRUE, from |-> i + 1, to |-> i + n, end |-> i + n + 2]
    ELSE NoMatch

CategoryLabel == "Category"

\* Category:?\s*([A-Za-z\s&]+) matched at position i
AfterCategoryAt(s, i) ==
    IF i + Len(CategoryLabel) - 1 <= Len(s)
       /\ SubSeq(s, i, i + Len(CategoryLabel) - 1) = CategoryLabel
    THEN LET p == i + Len(CategoryLabel)
             colon == IF Char(s, p) = ":" THEN 1 ELSE 0
         IN GreedyThen(s, p + colon, Space, 0, CategoryChars)
    ELSE NoMatch

MatchAt(pattern, s, i) ==
    CASE pattern = "list" -> ListItemAt(s, i)
      [] pattern = "quoted" -> QuotedAt(s, i)
      [] pattern = "label" -> AfterCategoryAt(s, i)

\* re.findall(pattern, s) for a pattern with one group: the groups of the
\* matches found from position i on, each search resuming where the last
\* match ended
RECURSIVE FindAll(_, _, _)
FindAll(pattern, s, i) ==
    IF i > Len(s) THEN <<>>
    ELSE LET m == MatchAt(pattern, s, i) IN
         IF m.ok
         THEN <<SubSeq(s, m.from, m.to)>> \o FindAll(pattern, s, m.end)
         ELSE FindAll(pattern, s, i + 1)

\* The loop at lines 334-338: stripped, non-empty, first occurrences only
RECURSIVE Deduplicate(_)
Deduplicate(cats) ==
    IF cats = <<>> THEN <<>>
    ELSE LET before == Deduplicate(SubSeq(cats, 1, Len(cats) - 1))
             cat == Strip(cats[Len(cats)])
         IN IF cat # "" /\ \A j \in 1..Len(before) : before[j] # cat
            THEN Append(before, cat) ELSE before

\* [line.strip() for line in response_text.split('\n') if line.strip()]
NonEmptyLines(s) ==
    LET NonEmpty(line) == Strip(line) # ""
        lines == SelectSeq(Split(s, "\n"), NonEmpty)
    IN [j \in 1..Len(lines) |-> Strip(lines[j])]

MaxSuggestions == 3

\* A plausible slip: the limit is forgotten
ParseCategories_Unlimited(response_text) ==
    Deduplicate(FindAll("list", response_text, 1) \o FindAll("quoted", response_text, 1)
                \o FindAll("label", response_text, 1))

\* Lines 314-344: the categories found in the provider's reply
ParseCategories(response_text) ==
    LET categories == FindAll("list", response_text, 1)
                      \o FindAll("quoted", response_text, 1)
                      \o FindAll("label", response_text, 1)
        unique_categories == Deduplicate(categories)
    IN IF unique_categories # <<>> THEN PySlice(unique_categories, MaxSuggestions)
       ELSE PySlice(NonEmptyLines(response_text), MaxSuggestions)

\* The default set of line 283
DefaultCategories ==
    <<"Authentication", "Sales", "HR", "Finance", "IT Support", "General">>

\* set(item["category"] for item in self.knowledge_base)
DistinctCategories(kb, h) == {h[kb[i]]["category"] : i \in 1..Len(kb)}

\* list(a set): its elements once each, in an order the interpreter chooses
\* (string hashes differ from process to process)
Orders(S) ==
    {o \in [1..Cardinality(S) -> S] : \A i, j \in 1..Cardinality(S) : i # j => o[i] # o[j]}

\* A plausible slip: the fixed default whatever the store holds
SuggestFallback_General(all_categories) == <<"General">>

\* The except clause, line 349
SuggestFallback(all_categories) ==
    IF Len(all_categories) > 0 THEN PySlice(all_categories, MaxSuggestions)
    ELSE <<"General">>

\* What the chat completion answers to the prompt: it raises, or it returns
\* a text
SuggestReply(kind, text) == [kind |-> kind, text |-> text]

\* suggest_categories(text) up to its await, or to its return when the store
\* has no category; text only goes into the prompt
SuggestCall(limit) ==
    /\ Len(tasks) < limit
    /\ \E all_categories \in Orders(DistinctCategories(knowledge_base, heap)) :
          IF all_categories = <<>>
          THEN /\ ret' = [op |-> "suggest", called |-> FALSE, failed |-> FALSE,
                          all_categories |-> all_categories, reply |-> "",
                          suggested |-> DefaultCategories]
               /\ UNCHANGED tasks
          ELSE /\ tasks' = Append(tasks, Frame("suggest", 0, "",
                                               [all_categories |-> all_categories], 0, 0))
               /\ ret' = NoRet
    /\ UNCHANGED <<knowledge_base, heap, next_id, kb_file, engineVars>>

\* suggest_categories from the provider's answer to its return
SuggestResume(t, reply) ==
    /\ tasks[t].op = "suggest"
    /\ tasks' = RemoveAt(tasks, t)
    /\ ret' = [op |-> "suggest", called |-> TRUE, failed |-> reply.kind = "error",
               all_categories |-> tasks[t].arg.all_categories, reply |-> reply.text,
               suggested |-> IF reply.kind = "error"
                             THEN SuggestFallback(tasks[t].arg.all_categories)
                             ELSE ParseCategories(reply.text)]
    /\ UNCHANGED <<knowledge_base, heap, next_id, kb_file, engineVars>>

\* Every text of at most n characters of the alphabet A
RECURSIVE Texts(_, _)
Texts(A, n) ==
    IF n = 0 THEN {""}
    ELSE LET shorter == Texts(A, n - 1) IN
         shorter \cup {t \o c : t \in shorter, c \in A}

SuggestAlphabet == {"1", "-", " ", "\n", "a", "\"", "?"}

\* Replies as a model writes them, longer than the enumerated ones
SuggestSamples ==
    {"Category: Sales", "1. Sales\n2. HR\n3. IT\n4. Finance", "- Sales\n- HR",
     "\"Sales\" and \"HR\" or \"Sales\"", "\"a\" \"b\" \"c\" \"d\"",
     "Category:Sales & Ops\nCategory HR", "The best fit is Sales.",
     "Sales\nHR\nIT\nFinance", "???\n???", "\n- A\n- B\n- C\n- D"}

SuggestReplies ==
    {SuggestReply("error", "")}
    \cup {SuggestReply("text", t) : t \in Texts(SuggestAlphabet, MaxReplyLen) \cup SuggestSamples}

\* Collections a manager may find persisted when it is constructed
StoredItem1 ==
    [id |-> 1, title |-> "t1", content |-> "c1", category |-> "Sales",
     tags |-> <<>>, embedding |-> Vec(1, 0)]

StoredItem2 ==
    [id |-> 2, title |-> "t2", content |-> "c2", category |-> "HR",
     tags |-> <<"x">>, embedding |-> Vec(0, 1)]

StoreFiles ==
    {AbsentFile, CorruptFile, FileOf(<<>>), FileOf(<<StoredItem1>>),
     FileOf(<<StoredItem2>>), FileOf(<<StoredItem1, StoredItem2>>)}

EngineIdle ==
    /\ ai_knowledge_base = <<>>
    /\ embedding_cache = EmptyCache

\* KnowledgeManager.__init__
Init ==
    /\ \E f \in StoreFiles :
       \E items \in {KM_load_knowledge_base(f)} :
          /\ kb_file = f
          /\ knowledge_base = [i \in 1..Len(items) |-> i]
          /\ heap = [i \in 1..Len(items) |-> items[i]]
          /\ next_id = InitialNextId(items)
    /\ tasks = <<>>
    /\ EngineIdle
    /\ ret = NoRet
    /\ request = NoRequest

\* The bullet U+2022 of lines 337 and 339, written here as one ASCII character
Bullet == "*"

\* The characters lstrip removes at line 339
GapMarkerChars == {"-", Bullet, ".", " "} \cup DigitChars

\* The test of line 337 on a stripped line
IsListItem(line) ==
    \/ StartsWith(line, "-")
    \/ StartsWith(line, Bullet)
    \/ (Len(line) > 2 /\ Char(line, 1) \in DigitChars /\ Char(line, 2) = ".")

MinSuggestionLen == 10

\* The loop of lines 331-341 over lines[i..]
RECURSIVE GapSuggestions(_, _)
GapSuggestions(lines, i) ==
    IF i > Len(lines) THEN <<>>
    ELSE LET line == Strip(lines[i])
             suggestion == Strip(LStripChars(line, GapMarkerChars))
         IN (IF IsListItem(line) /\ suggestion # "" /\ Len(suggestion) > MinSuggestionLen
             THEN <<suggestion>> ELSE <<>>)
            \o GapSuggestions(lines, i + 1)

\* Lines 328-347: the suggestions of a reply
ParseGaps(response_content) ==
    LET suggestions == GapSuggestions(Split(response_content, "\n"), 1) IN
    IF suggestions = <<>> /\ Strip(response_content) # ""
    THEN <<Strip(response_content)>>
    ELSE suggestions

\* The except clause, lines 349-356
GapsFallback ==
    <<"How to reset an ERP password",
      "Common ERP system error codes and their meanings",
      "Guide to generating custom reports in the reporting module">>

\* generate_knowledge_gaps(queries) up to its await; the queries only go into
\* the prompt
GapsCall(limit) ==
    /\ Len(tasks) < limit
    /\ tasks' = Append(tasks, Frame("gaps", 0, "", NoArg, 0, 0))
    /\ ret' = NoRet
    /\ UNCHANGED <<knowledge_base, heap, next_id, kb_file, engineVars>>

\* generate_knowledge_gaps from the provider's answer to its return
GapsResume(t, reply) ==
    /\ tasks[t].op = "gaps"
    /\ tasks' = RemoveAt(tasks, t)
    /\ ret' = [op |-> "gaps", failed |-> reply.kind = "error", reply |-> reply.text,
               suggestions |-> IF reply.kind = "error" THEN GapsFallback
                               ELSE ParseGaps(reply.text)]
    /\ UNCHANGED <<knowledge_base, heap, next_id, kb_file, engineVars>>

\* How a line of a reply may begin, and what may follow
GapMarkers == {"", "- ", "-", "* ", "1. ", "1.", "12. ", " - "}

GapBodies == {"", "short", "ten chars!", "eleven char", "Topic A details here",
              "401k enrollment steps"}

GapLines == {m \o b : m \in GapMarkers, b \in GapBodies}

GapTexts ==
    GapLines \cup {l1 \o "\n" \o l2 : l1 \in GapLines, l2 \in GapLines}
    \cup {"1. Topic A details here\n- Topic B with enough length\nnot a list item",
          " \n ", "Here are some topics:\n\n1. Password reset procedure\n2. VPN"}

GapReplies ==
    {SuggestReply("error", "")} \cup {SuggestReply("text", t) : t \in GapTexts}

\* ',' in response_text
Contains(s, c) == \E i \in 1..Len(s) : Char(s, i) = c

\* The characters of strip('"\'.,;:()-'), line 401
TagPunctuation == {"\"", "'", ".", ",", ";", ":", "(", ")", "-"}

TagPrefix == "tag:"

MinTagLen == 2

\* The loop of lines 399-411 over tags[i..]: strip, length test, prefix
\* removal, in that order
RECURSIVE CleanTags(_, _)
CleanTags(tags, i) ==
    IF i > Len(tags) THEN <<>>
    ELSE LET stripped == Strip(tags[i])
             tag == RStripChars(LStripChars(stripped, TagPunctuation), TagPunctuation)
         IN (IF Len(tag) < MinTagLen THEN <<>>
             ELSE IF StartsWith(tag, TagPrefix)
                  THEN <<Strip(SubSeq(tag, Len(TagPrefix) + 1, Len(tag)))>>
                  ELSE <<tag>>)
            \o CleanTags(tags, i + 1)

\* Lines 385-412: the tags of a reply
ParseTags(response_text) ==
    LET pieces == IF Contains(response_text, ",") THEN Split(response_text, ",")
                  ELSE IF Contains(response_text, "\n") THEN Split(response_text, "\n")
                  ELSE <<response_text>>
        tags == [i \in 1..Len(pieces) |-> Lower(Strip(pieces[i]))]
    IN CleanTags(tags, 1)

\* str.split() without a separator: the runs of non-blank characters
RECURSIVE Words(_)
Words(s) ==
    LET rest == LStripChars(s, Space)
        n == RunNot(rest, 1, Space)
    IN IF rest = "" THEN <<>>
       ELSE <<SubSeq(rest, 1, n)>> \o Words(SubSeq(rest, n + 1, Len(rest)))

StopWords == {"the", "and", "is", "in", "to", "of", "for", "a", "with", "on", "by"}

MinKeywordLen == 3

MaxFallbackTags == 5

\* The keys of a Counter, in the order they were first counted
RECURSIVE FirstOccurrences(_)
FirstOccurrences(words) ==
    IF words = <<>> THEN <<>>
    ELSE LET before == FirstOccurrences(SubSeq(words, 1, Len(words) - 1)) IN
         IF \E j \in 1..Len(before) : before[j] = words[Len(words)]
         THEN before ELSE Append(before, words[Len(words)])

\* Counter(words).most_common(n): by descending count, equal counts in the
\* order first counted
MostCommon(words, n) ==
    LET keys == FirstOccurrences(words)
        Count(k) == Cardinality({i \in 1..Len(words) : words[i] = keys[k]})
        Rank(k) == 1 + Cardinality({j \in 1..Len(keys) :
                        Count(j) > Count(k) \/ (Count(j) = Count(k) /\ j < k)})
        sorted == [p \in 1..Len(keys) |-> keys[CHOOSE k \in 1..Len(keys) : Rank(k) = p]]
    IN PySlice(sorted, n)

\* The except clause, lines 415-428
KeywordTags(text) ==
    LET words == Words(Lower(text))
        kept == {i \in 1..Len(words) :
                    words[i] \notin StopWords /\ Len(words[i]) > MinKeywordLen}
        Index(k) == CHOOSE i \in kept : Cardinality({j \in kept : j <= i}) = k
        keywords == [k \in 1..Cardinality(kept) |-> words[Index(k)]]
    IN MostCommon(keywords, MaxFallbackTags)

\* suggest_tags(text) up to its await
TagsCall(text, limit) ==
    /\ Len(tasks) < limit
    /\ tasks' = Append(tasks, Frame("tags", 0, text, NoArg, 0, 0))
    /\ ret' = NoRet
    /\ UNCHANGED <<knowledge_base, heap, next_id, kb_file, engineVars>>

\* suggest_tags from the provider's answer to its return
TagsResume(t, reply) ==
    /\ tasks[t].op = "tags"
    /\ tasks' = RemoveAt(tasks, t)
    /\ ret' = [op |-> "tags", failed |-> reply.kind = "error", text |-> tasks[t].text,
               reply |-> reply.text,
               tags |-> IF reply.kind = "error" THEN KeywordTags(tasks[t].text)
                        ELSE ParseTags(reply.text)]
    /\ UNCHANGED <<knowledge_base, heap, next_id, kb_file, engineVars>>

\* Article texts the tags are asked for
TagArticles ==
    {"", "low stock Stock alerts and the STOCK alerts low",
     "Inventory levels trigger automated purchasing alerts when stock is low"}

\* The candidates of a reply, and the replies made of one or two of them
TagPieces == {"", "a", "ERP", "tag:a", "tag:erp", "tag:tag:x", "Tag: -", "tag:",
              "\"billing\"", " (x) ", "-ok-", "Tags: erp"}

TagSeparators == {",", ", ", "\n"}

TagTexts ==
    TagPieces
    \cup {p1 \o sep \o p2 : p1 \in TagPieces, sep \in TagSeparators, p2 \in TagPieces}
    \cup {"erp, billing\ninvoices, Tag:reports", "1. erp\n2. billing"}

TagReplies ==
    {SuggestReply("error", "")} \cup {SuggestReply("text", t) : t \in TagTexts}

\* Items of the stores the assistant is asked about
CategoryItem(id, category) ==
    [id |-> id, title |-> "t", content |-> "c1", category |-> category,
     tags |-> <<>>, embedding |-> Vec(1, 0)]

AssistFiles ==
    {AbsentFile, FileOf(<<>>), FileOf(<<CategoryItem(1, "Sales")>>),
     FileOf(<<CategoryItem(1, "Sales"), CategoryItem(2, "HR"), CategoryItem(3, "Sales")>>),
     FileOf(<<CategoryItem(1, "Sales"), CategoryItem(2, "HR"), CategoryItem(3, "IT"),
              CategoryItem(4, "Finance")>>)}

\* A manager constructed on one of these stores
AssistInit ==
    /\ \E f \in AssistFiles :
       \E items \in {KM_load_knowledge_base(f)} :
          /\ kb_file = f
          /\ knowledge_base = [i \in 1..Len(items) |-> i]
          /\ heap = [i \in 1..Len(items) |-> items[i]]
          /\ next_id = InitialNextId(items)
    /\ tasks = <<>>
    /\ EngineIdle
    /\ ret = NoRet
    /\ request = NoRequest

AssistNext ==
    \/ SuggestCall(1)
    \/ \E t \in 1..Len(tasks), reply \in SuggestReplies : SuggestResume(t, reply)
    \/ GapsCall(1)
    \/ \E t \in 1..Len(tasks), reply \in GapReplies : GapsResume(t, reply)
    \/ \E text \in TagArticles : TagsCall(text, 1)
    \/ \E t \in 1..Len(tasks), reply \in TagReplies : TagsResume(t, reply)

AssistSpec == AssistInit /\ [][AssistNext]_vars

\* The manager's mutating operations, at most limit of them in flight at once
StoreNext(limit, patches, idCap) ==
    \/ \E d \in Drafts : CreateCall(d, limit, idCap)
    \/ \E t \in 1..Len(tasks), ok \in BOOLEAN : CreateResume(t, ok)
    \/ \E id \in Ids, p \in patches : UpdateSync(id, p, limit)
    \/ \E id \in Ids, p \in patches : UpdateCall(id, p, limit)
    \/ \E t \in 1..Len(tasks), ok \in BOOLEAN : UpdateResume(t, ok)
    \/ \E id \in Ids : DeleteItem(id, limit)
    \/ BulkCall(limit)
    \/ \E t \in 1..Len(tasks), ok \in BOOLEAN : BulkResume(t, ok)

\* Operations overlapping at their awaits
Next == StoreNext(MaxTasks, ConcPatches, ConcMaxId)

Spec == Init /\ [][Next]_vars

\* Updates of the content overlapping at their awaits, with a provider that
\* answers every call
RaceNext ==
    \/ \E id \in Ids, p \in ConcPatches : UpdateCall(id, p, MaxTasks)
    \/ \E t \in 1..Len(tasks) : UpdateResume(t, TRUE)

RaceSpec == Init /\ [][RaceNext]_vars

\* The operations one at a time, each returning before the next is called
SeqNext ==
    \/ StoreNext(1, Patches, MaxId)
    \/ \E id \in Ids : GetItemById(id, 1)

SeqSpec == Init /\ [][SeqNext]_vars

\* The operations one at a time, with the operations that only read
ReadNext ==
    \/ SeqNext
    \/ GetAllItems(1)
    \/ \E c \in CategoryArgs : GetItemsByCategory(c, 1)
    \/ \E tags \in TagArgs : GetItemsByTags(tags, 1)

ReadSpec == Init /\ [][ReadNext]_vars

---------------------------------------------------------------------------
(* Properties of answer synthesis and retrieval, under EngineSpec *)

\* The five fields the error fallback fixes
IsErrorResult(r) ==
    /\ r["category"] = "Error"
    /\ r["confidence"] = 0
    /\ r["shouldEscalate"] = TRUE
    /\ r["relatedQuestions"] = <<>>
    /\ r["sourceKnowledgeIds"] = <<>>

\* C1: process_query never raises to its caller, whatever the query, the
\* store content and the step that failed; when the provider call or the
\* parsing failed, what it returns is the fixed fallback result.
C1_NeverRaises ==
    ret.op = "process_query" =>
        /\ ~ret.raised
        /\ (ret.chat \in {"error", "text"} => ret.result = FallbackResult)

\* C2 as stated: whenever the embedding call, the chat-completion call or
\* both failed during answer synthesis, the returned result is the error
\* result (category "Error", confidence 0.0, shouldEscalate, no related
\* questions, no source ids).
C2_AnyProviderFailure ==
    (ret.op = "process_query" /\ ~ret.raised
        /\ (ret.embedFailed \/ ret.chat = "error"))
    => IsErrorResult(ret.result)

\* C2 as amended: whenever the chat-completion call was made and failed,
\* whether or not an embedding call failed too, the returned result is the
\* error result.
C2_ChatFailure ==
    (ret.op = "process_query" /\ ret.chat = "error")
    => /\ ~ret.raised
       /\ IsErrorResult(ret.result)

\* A synthesis in which an embedding call and the chat call both failed, with
\* items retrieved
C2_Witness ==
    /\ ret.op = "process_query"
    /\ ret.chat = "error"
    /\ ret.embedFailed
    /\ Len(ret.items) > 0
    /\ IsErrorResult(ret.result)

ScoreOf(i) ==
    cosine_similarity(ret.query_embedding, ai_knowledge_base[i]["embedding"])

\* idx lists the store indices of the returned items, in the order returned
IsRanking(idx) ==
    LET n == Len(ai_knowledge_base)
        returned == {idx[j] : j \in 1..Len(idx)}
    IN /\ \A j, k \in 1..Len(idx) : j # k => idx[j] # idx[k]
       /\ \A j \in 1..Len(idx) : ret.items[j] = ai_knowledge_base[idx[j]]
       /\ \A j, k \in 1..Len(idx) :
             j < k => /\ ~SimLess(ScoreOf(idx[j]), ScoreOf(idx[k]))
                      /\ (SimEq(ScoreOf(idx[j]), ScoreOf(idx[k])) => idx[j] < idx[k])
       /\ \A i \in (1..n) \ returned : \A j \in 1..Len(idx) :
             /\ ~SimLess(ScoreOf(idx[j]), ScoreOf(i))
             /\ (SimEq(ScoreOf(idx[j]), ScoreOf(i)) => idx[j] < i)

\* C7: search returns items in non-increasing order of similarity to the
\* query, no omitted item is more similar than a returned one, and items of
\* equal similarity keep their collection order; with the zero fallback
\* vector as the query embedding the result is the first top_k items of the
\* collection.
C7_StableRanking ==
    (ret.op = "search" /\ ~ret.raised) =>
        /\ \E idx \in [1..Len(ret.items) -> 1..Len(ai_knowledge_base)] : IsRanking(idx)
        /\ (ret.query_embedding = ZeroVector /\ ret.top_k >= 0 =>
              ret.items = SubSeq(ai_knowledge_base, 1,
                                 Min(ret.top_k, Len(ai_knowledge_base))))

\* A search with a non-zero query embedding that returned two items of equal
\* similarity and one of a different similarity
C7_Witness ==
    /\ ret.op = "search"
    /\ ~ret.raised
    /\ ret.query_embedding # ZeroVector
    /\ Len(ret.items) = 3
    /\ \E idx \in [1..3 -> 1..3] :
          /\ IsRanking(idx)
          /\ \E j \in 1..2 : SimEq(ScoreOf(idx[j]), ScoreOf(idx[j + 1]))
                             /\ ScoreOf(idx[j]).num # 0
          /\ \E j \in 1..2 : SimLess(ScoreOf(idx[j + 1]), ScoreOf(idx[j]))

\* v is all zeros (or empty)
AllZero(v) == \A i \in 1..Len(v) : v[i] = 0

---------------------------------------------------------------------------
(* Properties of the embedding cache, under CacheSpec *)

\* C12: embed(text) never raises; when the provider call fails it returns
\* the zero-filled vector of the provider's dimensionality and leaves the
\* cache as it was, so the text is still not cached and an embed of a text
\* that is not cached calls the provider (again).
C12_FallbackNotCached ==
    [][ret'.op = "embed" =>
         /\ ret'.failed =>
               /\ ret'.called
               /\ ret'.vec = ZeroVector
               /\ Len(ret'.vec) = EmbeddingDim
               /\ embedding_cache' = embedding_cache
               /\ ret'.text \notin DOMAIN embedding_cache'
         /\ ret'.text \notin DOMAIN embedding_cache => ret'.called]_vars

\* An embed has failed for a text while other texts are cached
C12_Witness ==
    /\ ret.op = "embed"
    /\ ret.failed
    /\ ret.vec = ZeroVector
    /\ DOMAIN embedding_cache # {}
    /\ ret.text \notin DOMAIN embedding_cache

\* C13: in sequential execution of one engine, a successful embed caches the
\* provider's vector under exactly its text; an embed of a cached text
\* returns the cached vector without calling the provider; no step removes
\* or overwrites a cache entry; and a text that is not itself a key of the
\* cache (texts are matched verbatim) is a miss, which calls the provider.
C13_CacheMonotone ==
    [][/\ \A t \in DOMAIN embedding_cache :
             /\ t \in DOMAIN embedding_cache'
             /\ embedding_cache'[t] = embedding_cache[t]
       /\ ret'.op = "embed" =>
             /\ ret'.text \in DOMAIN embedding_cache =>
                   /\ ~ret'.called
                   /\ ret'.vec = embedding_cache[ret'.text]
                   /\ embedding_cache' = embedding_cache
             /\ ret'.text \notin DOMAIN embedding_cache => ret'.called
             /\ (ret'.called /\ ~ret'.failed) =>
                   /\ ret'.vec = ProviderEmbedding(ret'.text)
                   /\ DOMAIN embedding_cache' = DOMAIN embedding_cache \cup {ret'.text}
                   /\ embedding_cache'[ret'.text] = ret'.vec]_vars

\* A hit on "c1" in a cache that also holds "c1 " but does not hold "C1"
C13_Witness ==
    /\ ret.op = "embed"
    /\ ret.text = "c1"
    /\ ~ret.called
    /\ "c1 " \in DOMAIN embedding_cache
    /\ "C1" \notin DOMAIN embedding_cache
    /\ ret.vec = embedding_cache["c1"]

---------------------------------------------------------------------------
(* Properties of the knowledge store *)

IdAt(i) == heap[knowledge_base[i]]["id"]

\* C3: in every reachable state of one manager the items of the collection
\* have pairwise distinct ids, also when create calls overlap at their awaits
\* (under Spec).
C3_UniqueIds ==
    \A i, j \in 1..Len(knowledge_base) : i # j => IdAt(i) # IdAt(j)

\* C4: whenever no operation is in flight, every item's embedding is absent
\* or is the provider's embedding of the item's current content, also after
\* provider failures (under SeqSpec).
C4_EmbeddingMatchesContent ==
    tasks = <<>> =>
        \A i \in 1..Len(knowledge_base) :
            LET item == heap[knowledge_base[i]] IN
            \/ LacksEmbedding(item)
            \/ item["embedding"] = ProviderEmbedding(item["content"])

\* The ids of the items that were in the collection before the last append
IdsBeforeLast ==
    [i \in 1..(Len(knowledge_base) - 1) |-> IdAt(i)]

\* C5 as stated: every create allocates (maximum id currently in the
\* collection) + 1, or 1 if the collection is empty, also after a delete of
\* the item that held the maximum id (under SeqSpec).
C5_MaxPlusOne ==
    ret.op = "create" => ret.item["id"] = SeqMax(IdsBeforeLast, 0) + 1

\* C5 as amended: every create allocates the manager's next-id counter.  The
\* counter is (maximum id in the collection) + 1, or 1 for an empty
\* collection, when the manager is constructed; each create advances it by
\* one and nothing else changes it, so it stays above every id in the
\* collection and the id of a deleted item is not allocated again (under
\* SeqSpec).
C5_CounterAllocation ==
    /\ next_id = SeqMax([i \in 1..Len(knowledge_base) |-> IdAt(i)], 0) + 1
    /\ [](\A i \in 1..Len(knowledge_base) : IdAt(i) < next_id)
    /\ [][/\ ret'.op = "create" => /\ ret'.item["id"] = next_id
                                   /\ next_id' = next_id + 1
          /\ ret'.op # "create" => next_id' = next_id]_vars

\* A create that followed the delete of the item with the maximum id: the id
\* it allocated is more than the maximum left in the collection plus one
C5_Witness ==
    /\ ret.op = "create"
    /\ Len(knowledge_base) = 2
    /\ ret.item["id"] > SeqMax(IdsBeforeLast, 0) + 1

\* C8: right after create(draft) returns, getById on the returned id yields
\* an item whose title, content, category and tags are the draft's (no tags
\* for a draft without them) and that has no embedding field, whether or not
\* the provider's embedding call succeeded (under SeqSpec).
C8_CreateThenGet ==
    ret.op = "create" =>
        LET g == get_item_by_id(knowledge_base, heap, ret.item["id"]) IN
        /\ g.found
        /\ g.item["title"] = ret.draft["title"]
        /\ g.item["content"] = ret.draft["content"]
        /\ g.item["category"] = ret.draft["category"]
        /\ g.item["tags"] = (IF "tags" \in DOMAIN ret.draft THEN ret.draft["tags"]
                             ELSE <<>>)
        /\ "embedding" \notin DOMAIN g.item
        /\ "embedding" \notin DOMAIN ret.item

\* A create of a draft without tags whose embedding call failed, into a
\* collection that already held an item
C8_Witness ==
    /\ ret.op = "create"
    /\ "tags" \notin DOMAIN ret.draft
    /\ ~ret.calls[1].ok
    /\ Len(knowledge_base) = 2
    /\ get_item_by_id(knowledge_base, heap, ret.item["id"]).item["tags"] = <<>>

\* C9: an update of an existing id whose patch has no content key leaves the
\* item's embedding as it was and calls the provider not at all; one whose
\* patch has a content key calls the provider once, for the new content, and
\* sets the embedding to what get_embedding returned for it, whether or not
\* the content changed (under SeqSpec).
C9_UpdateEmbedding ==
    [][(ret'.op = "update" /\ ret'.found) =>
         LET i == FindIndex(knowledge_base, heap, ret'.id)
             before == heap[knowledge_base[i]]
             after == heap'[knowledge_base'[i]]
         IN IF "content" \in DOMAIN ret'.patch
            THEN /\ Len(ret'.calls) = 1
                 /\ ret'.calls[1].text = ret'.patch["content"]
                 /\ after["content"] = ret'.patch["content"]
                 /\ after["embedding"] =
                       (IF ret'.calls[1].ok
                        THEN ProviderEmbedding(ret'.patch["content"])
                        ELSE ZeroVector)
            ELSE /\ ret'.calls = <<>>
                 /\ after["embedding"] = before["embedding"]
                 /\ after["content"] = before["content"]]_vars

\* An update with a content patch has returned after its provider call
\* failed, leaving the fallback vector where the item had its embedding
C9_Witness ==
    /\ ret.op = "update"
    /\ ret.found
    /\ "content" \in DOMAIN ret.patch
    /\ ~ret.calls[1].ok
    /\ heap[knowledge_base[FindIndex(knowledge_base, heap, ret.id)]]["embedding"]
          = ZeroVector

\* C10: delete on an id no item of the collection has returns false and
\* leaves the collection (size, order, contents), the next id and the
\* persisted state as they were, also while other operations are in flight
\* (under Spec).
C10_DeleteMissing ==
    [][(/\ ret'.op = "delete"
        /\ \A i \in 1..Len(knowledge_base) : IdAt(i) # ret'.id)
       => /\ ~ret'.found
          /\ UNCHANGED <<knowledge_base, heap, next_id, kb_file, tasks>>]_vars

\* A delete that missed, on a non-empty collection whose persisted state is
\* behind the memory because an update is in flight
C10_Witness ==
    /\ ret.op = "delete"
    /\ ~ret.found
    /\ knowledge_base # <<>>
    /\ tasks # <<>>
    /\ kb_file # Saved(knowledge_base, heap)

\* C14: whenever no mutating operation of a manager is in flight, the
\* collection a manager loads from the persisted state is the in-memory
\* collection, embeddings included, also when the operations overlapped at
\* their awaits; and every write puts the entire in-memory collection into
\* the persisted state (under Spec).
C14_PersistedEqualsMemory ==
    /\ [](tasks = <<>> =>
            KM_load_knowledge_base(kb_file) = Items(knowledge_base, heap))
    /\ [][kb_file' # kb_file =>
            kb_file' = FileOf(Items(knowledge_base', heap'))]_vars

\* An update has returned after the item it was updating was deleted under
\* it; nothing is in flight and another item is left in the collection
C14_Witness ==
    /\ tasks = <<>>
    /\ ret.op = "update"
    /\ ret.found
    /\ FindIndex(knowledge_base, heap, ret.id) = 0
    /\ knowledge_base # <<>>
    /\ kb_file = FileOf(Items(knowledge_base, heap))

NoDuplicates(seq) == \A i, j \in 1..Len(seq) : i # j => seq[i] # seq[j]

\* C15 as stated: suggestCategories returns at most 3 category names, with
\* no duplicates, for every store state, a store with no items included, and
\* every provider outcome (under AssistSpec).
C15_AtMostThreeDistinct ==
    ret.op = "suggest" =>
        /\ Len(ret.suggested) <= MaxSuggestions
        /\ NoDuplicates(ret.suggested)

\* Whether one of the three patterns finds a non-blank name in the reply
PatternsMatch(text) ==
    Deduplicate(FindAll("list", text, 1) \o FindAll("quoted", text, 1)
                \o FindAll("label", text, 1)) # <<>>

\* C15 as amended: for a store with at least one item suggestCategories
\* calls the provider and returns at most 3 names, whatever the provider
\* does; they are distinct when the provider fails and when one of the three
\* patterns matches, and they are the first non-blank lines of the reply,
\* repeated if the reply repeats them, when no pattern matches.  For a store
\* with no items it returns the six default names without calling the
\* provider (under AssistSpec).
C15_AtMostThreeForNonEmptyStore ==
    ret.op = "suggest" =>
        /\ ret.called <=> knowledge_base # <<>>
        /\ ~ret.called => ret.suggested = DefaultCategories
        /\ ret.called =>
              /\ Len(ret.suggested) <= MaxSuggestions
              /\ (ret.failed \/ PatternsMatch(ret.reply)) => NoDuplicates(ret.suggested)
              /\ (~ret.failed /\ ~PatternsMatch(ret.reply)) =>
                    ret.suggested = PySlice(NonEmptyLines(ret.reply), MaxSuggestions)

\* A reply in which the patterns find four distinct names, cut to three
C15_Witness ==
    /\ ret.op = "suggest"
    /\ ret.called
    /\ ~ret.failed
    /\ Len(FindAll("quoted", ret.reply, 1)) = 4
    /\ ret.suggested = <<"a", "b", "c">>

\* The store's categories in the order the collection first has them
RECURSIVE FirstSeen(_)
FirstSeen(cats) ==
    IF cats = <<>> THEN <<>>
    ELSE LET before == FirstSeen(SubSeq(cats, 1, Len(cats) - 1)) IN
         IF \A j \in 1..Len(before) : before[j] # cats[Len(cats)]
         THEN Append(before, cats[Len(cats)]) ELSE before

StoreCategories == FirstSeen([i \in 1..Len(knowledge_base) |-> heap[knowledge_base[i]]["category"]])

\* C16 as stated: when the provider call fails suggestCategories returns the
\* first 3 existing categories of the store, or exactly ["General"] if the
\* store has no categories (under AssistSpec).
C16_FirstThreeOrGeneral ==
    (ret.op = "suggest" /\ ret.failed) =>
        ret.suggested = (IF StoreCategories = <<>> THEN <<"General">>
                         ELSE PySlice(StoreCategories, MaxSuggestions))

\* C16 as amended: the provider is called only when the store has a
\* category; when that call fails suggestCategories returns min(3, n) of the
\* store's n distinct categories, each once, in an order the code does not
\* fix (the first 3 of a list made from a set).  ["General"] is never the
\* fallback: a store with no categories gets the six defaults without a
\* provider call (under AssistSpec).
C16_ThreeExistingCategories ==
    (ret.op = "suggest" /\ ret.failed) =>
        /\ ret.called
        /\ StoreCategories # <<>>
        /\ Len(ret.suggested) = Min(MaxSuggestions, Len(StoreCategories))
        /\ NoDuplicates(ret.suggested)
        /\ \A j \in 1..Len(ret.suggested) :
              \E i \in 1..Len(StoreCategories) : ret.suggested[j] = StoreCategories[i]
        /\ ret.suggested = PySlice(ret.all_categories, MaxSuggestions)

\* A failed call on a store of four categories that returned three of them,
\* not the three the collection has first
C16_Witness ==
    /\ ret.op = "suggest"
    /\ ret.failed
    /\ Len(StoreCategories) = 4
    /\ Len(ret.suggested) = 3
    /\ ret.suggested # PySlice(StoreCategories, MaxSuggestions)

\* C19: when the provider's reply parses as a JSON object, the result's
\* sourceKnowledgeIds are the ids of the retrieved items, in retrieval order,
\* when the reply has no such field and are the reply's own when it has one;
\* every other field of the reply is returned as it came and no field is
\* added (under EngineSpec).
C19_SourceIdsInjectedWhenOmitted ==
    (ret.op = "process_query" /\ ~ret.raised /\ ret.chat = "json") =>
        /\ ret.result["sourceKnowledgeIds"] =
              (IF "sourceKnowledgeIds" \in DOMAIN ret.reply
               THEN ret.reply["sourceKnowledgeIds"]
               ELSE [j \in 1..Len(ret.items) |-> ret.items[j]["id"]])
        /\ DOMAIN ret.result = DOMAIN ret.reply \cup {"sourceKnowledgeIds"}
        /\ \A k \in DOMAIN ret.reply : ret.result[k] = ret.reply[k]

\* Two items retrieved, the later id first, and a reply without the field
C19_Witness ==
    /\ ret.op = "process_query"
    /\ ~ret.raised
    /\ ret.chat = "json"
    /\ "sourceKnowledgeIds" \notin DOMAIN ret.reply
    /\ Len(ret.items) = 2
    /\ ret.items[1]["id"] > ret.items[2]["id"]
    /\ ret.result["sourceKnowledgeIds"] = <<ret.items[1]["id"], ret.items[2]["id"]>>

\* C22 as stated: with a provider that never fails, once the updates of an
\* item's content that were in flight together have all returned, the item's
\* embedding is the embedding of the content it now has, however the updates
\* interleaved at their awaits (under RaceSpec).
C22_EmbeddingOfFinalContent ==
    (tasks = <<>> /\ ret.op = "update") =>
        \A i \in 1..Len(knowledge_base) :
            heap[knowledge_base[i]]["id"] = ret.id =>
                heap[knowledge_base[i]]["embedding"]
                    = ProviderEmbedding(heap[knowledge_base[i]]["content"])

\* C21 as stated: when the provider answers, every tag suggestTags returns
\* is lower-case, does not start with the prefix "tag:" and has at least 2
\* characters, for every reply (under AssistSpec).
C21_TagsCleaned ==
    (ret.op = "tags" /\ ~ret.failed) =>
        \A i \in 1..Len(ret.tags) :
            /\ Lower(ret.tags[i]) = ret.tags[i]
            /\ ~StartsWith(ret.tags[i], TagPrefix)
            /\ Len(ret.tags[i]) >= MinTagLen

\* C20 as stated, for the Knowledge Store's loader: a manager that has just
\* been constructed, no operation called yet, finds a readable persisted
\* collection equal to the one it holds, because a file that was absent or
\* corrupt at load time has been replaced by the 3 sample items, which are
\* then also the collection in memory (under SeqSpec).  The retrieval
\* engine's loader does this: AI_file_after_load is never absent or corrupt.
C20_StoreLoaderBootstraps ==
    (ret = NoRet /\ tasks = <<>>) =>
        /\ kb_file.state = "ok"
        /\ Items(knowledge_base, heap) = kb_file.items

\* C17 as stated: for every provider reply findGaps returns, in order,
\* exactly the marker-stripped text of each line that is a list item (starts
\* with '-', the bullet, or a digit immediately followed by '.') and whose
\* remaining text exceeds 10 characters; the whole reply is the single result
\* only when no line does and the reply is not blank (under AssistSpec).
C17_MarkerStrippedLines ==
    (ret.op = "gaps" /\ ~ret.failed) =>
        LET lines == Split(ret.reply, "\n")
            Rest(line) == Strip(IF Char(line, 1) \in DigitChars
                                THEN SubSeq(line, 3, Len(line))
                                ELSE SubSeq(line, 2, Len(line)))
            Kept(i) == /\ IsListItem(Strip(lines[i]))
                       /\ Len(Rest(Strip(lines[i]))) > MinSuggestionLen
            kept == {i \in 1..Len(lines) : Kept(i)}
            Index(k) == CHOOSE i \in kept : Cardinality({j \in kept : j <= i}) = k
            stripped == [k \in 1..Cardinality(kept) |-> Rest(Strip(lines[Index(k)]))]
        IN ret.suggestions = (IF kept = {} /\ Strip(ret.reply) # ""
                              THEN <<Strip(ret.reply)>> ELSE stripped)

\* The items an operation returned: a list for the read filters and list, one
\* item for getById, create and update, none on a miss
ReturnedItems(r) ==
    IF r.op \in {"list", "by_category", "by_tags"} THEN r.items
    ELSE IF r.op = "create" THEN <<r.item>>
    ELSE IF r.op \in {"get_item_by_id", "update"} /\ r.found THEN <<r.item>>
    ELSE <<>>

\* C11: no item returned by list, getById, getByCategory, getByTags, create
\* or update has an embedding field, in any store state; the read operations
\* leave the stored items as they are and no operation takes the embedding
\* field from a stored item (under ReadSpec).
C11_EmbeddingNeverExposed ==
    [][/\ \A j \in 1..Len(ReturnedItems(ret')) :
             "embedding" \notin DOMAIN ReturnedItems(ret')[j]
       /\ ret'.op \in {"list", "by_category", "by_tags", "get_item_by_id"}
             => UNCHANGED <<knowledge_base, heap, kb_file>>
       /\ \A r \in DOMAIN heap \cap DOMAIN heap' :
             "embedding" \in DOMAIN heap[r] => "embedding" \in DOMAIN heap'[r]
       /\ \A i \in 1..Len(knowledge_base') :
             "embedding" \in DOMAIN heap'[knowledge_base'[i]]]_vars

\* list() has returned two items while both stored items hold a computed
\* embedding
C11_Witness ==
    /\ ret.op = "list"
    /\ Len(ret.items) = 2
    /\ \A i \in 1..2 : /\ ~LacksEmbedding(heap[knowledge_base[i]])
                        /\ "embedding" \notin DOMAIN ret.items[i]
                        /\ ret.items[i]["id"] = IdAt(i)

====
